---- MODULE Spec2Model ----
(***************************************************************************)
(* LIGMA, the markdown layer of chriscodes.online (src/main.go 225-372):   *)
(* the content cache (GetBlogContent), slug discovery (buildBlogList),     *)
(* the document renderer (loadBlogContent) and the inline span transducer  *)
(* (parseInlineMarkdown).                                                  *)
(*                                                                         *)
(* A Go string is modelled as a sequence of bytes; a byte is written as a  *)
(* one-character TLA+ string ("a", "*", "/"), and the byte 0xC3, which is  *)
(* not ASCII, as "xC3" (its UTF-8 continuation partner 0x83 as "x83").      *)
(***************************************************************************)
EXTENDS Integers, Sequences, FiniteSets, TLC

VARIABLES
    Content,      \* LIGMA.Content: map slug -> markup
    Slugs,        \* LIGMA.Slugs
    fs,           \* the file store: path of a file -> document (sequence of lines)
    ret,          \* what the last call on the LIGMA instance returned, with history:
                  \* seenBefore (the slug had been returned before), afterFail (the
                  \* call before failed to open this slug), stale (the slug was
                  \* cached and its document rendered differently at the call)
    firstRet,     \* history: slug -> markup of the first successful GetBlogContent
    nDiscover,    \* number of buildBlogList calls made so far
    procs,        \* goroutines running GetBlogContent step by step
    mapWriting,   \* the goroutines inside the map assignment of line 261
    crashed,      \* the runtime aborted the process (fatal error)
    nEdits,       \* number of changes made to the store while goroutines run
    line,         \* parseInlineMarkdown: its argument
    i,            \* parseInlineMarkdown: loop index (Go's, from 0)
    buf,          \* parseInlineMarkdown: bytes.Buffer
    inStrong, inEm, inLinkText, inLinkURL,
    linkText,     \* parseInlineMarkdown: the URL accumulator
    ipc,          \* parseInlineMarkdown: "loop" or "returned"
    doc,          \* loadBlogContent: the lines of the opened file
    pos,          \* loadBlogContent: number of lines scanned so far
    html,         \* loadBlogContent: strings.Builder
    rpc           \* loadBlogContent: "scan" or "returned"

varsLigma  == <<Content, Slugs, fs, ret, firstRet, nDiscover>>
varsConc   == <<procs, mapWriting, crashed, nEdits>>
varsInline == <<line, i, buf, inStrong, inEm, inLinkText, inLinkURL, linkText, ipc>>
varsRender == <<doc, pos, html, rpc>>
vars       == <<varsLigma, varsConc, varsInline, varsRender>>

(***************************************************************************)
(* Bounds of the model.                                                    *)
(***************************************************************************)
MaxLineLen == 4

MaxTextLen == 1

MaxDiscover == 2

MaxFiles == 2

MaxDocLines == 2

MaxEdits == 1

(***************************************************************************)
(* Strings.                                                                *)
(***************************************************************************)
\* strings.HasPrefix(s, prefix)
HasPrefix(s, prefix) ==
    /\ Len(s) >= Len(prefix)
    /\ SubSeq(s, 1, Len(prefix)) = prefix

\* strings.HasSuffix(s, suffix)
HasSuffix(s, suffix) ==
    /\ Len(s) >= Len(suffix)
    /\ SubSeq(s, Len(s) - Len(suffix) + 1, Len(s)) = suffix

\* strings.TrimPrefix(s, prefix): s without the prefix, once, if it has it
TrimPrefix(s, prefix) ==
    IF HasPrefix(s, prefix) THEN SubSeq(s, Len(prefix) + 1, Len(s)) ELSE s

\* strings.TrimSuffix(s, suffix): s without the suffix, once, if it has it
TrimSuffix(s, suffix) ==
    IF HasSuffix(s, suffix) THEN SubSeq(s, 1, Len(s) - Len(suffix)) ELSE s

\* Go's slice expression s[n:]
SliceFrom(s, n) == SubSeq(s, n + 1, Len(s))

\* string(b) for a byte b (line 366): the UTF-8 encoding of the code point b,
\* which is b itself for an ASCII byte and two bytes for a byte >= 0x80.
StringOfByte(b) ==
    IF b = "xC3" THEN <<"xC3", "x83">>
    ELSE IF b = "x83" THEN <<"xC2", "x83">>
    ELSE IF b = "xC2" THEN <<"xC3", "x82">>
    ELSE <<b>>

TagStrongOpen  == <<"<", "s", "t", "r", "o", "n", "g", ">">>
TagStrongClose == <<"<", "/", "s", "t", "r", "o", "n", "g", ">">>
TagEmOpen      == <<"<", "e", "m", ">">>
TagEmClose     == <<"<", "/", "e", "m", ">">>
TagBr          == <<"<", "b", "r", ">">>

\* `<a href="` + linkText + `">` + linkText + "</a>"   (line 362)
Anchor(url) ==
    <<"<", "a", " ", "h", "r", "e", "f", "=", "\"">> \o url \o <<"\"", ">">>
        \o url \o <<"<", "/", "a", ">">>

(***************************************************************************)
(* parseInlineMarkdown (lines 327-373).  A scanner state is the record of  *)
(* the function's locals; ScanCase picks the switch case taken at index i  *)
(* and ScanStep is one iteration of the loop, its i++ included.            *)
(***************************************************************************)
ScanInit ==
    [i |-> 0, buf |-> <<>>, inStrong |-> FALSE, inEm |-> FALSE,
     inLinkText |-> FALSE, inLinkURL |-> FALSE, linkText |-> <<>>]

\* line[k] in Go
At(l, k) == l[k + 1]

\* the switch with the case of line 360 not guarded by inLinkURL
ScanCaseUnguardedClose(l, st) ==
    IF At(l, st.i) = "*" /\ st.i + 1 < Len(l) /\ At(l, st.i + 1) = "*" THEN "strong"
    ELSE IF At(l, st.i) = "*" /\ ~st.inStrong THEN "em"
    ELSE IF At(l, st.i) = "[" THEN "linkOpen"
    ELSE IF At(l, st.i) = "]" THEN "linkClose"
    ELSE IF At(l, st.i) = "(" /\ st.inLinkText THEN "urlOpen"
    ELSE IF At(l, st.i) = ")" THEN "urlClose"
    ELSE "default"

\* the switch with the case of line 358 not guarded by inLinkText
ScanCaseUnguardedOpen(l, st) ==
    IF At(l, st.i) = "*" /\ st.i + 1 < Len(l) /\ At(l, st.i + 1) = "*" THEN "strong"
    ELSE IF At(l, st.i) = "*" /\ ~st.inStrong THEN "em"
    ELSE IF At(l, st.i) = "[" THEN "linkOpen"
    ELSE IF At(l, st.i) = "]" THEN "linkClose"
    ELSE IF At(l, st.i) = "(" THEN "urlOpen"
    ELSE IF At(l, st.i) = ")" /\ st.inLinkURL THEN "urlClose"
    ELSE "default"

\* the switch with the single-asterisk case not guarded by !inStrong
ScanCaseEmInStrong(l, st) ==
    IF At(l, st.i) = "*" /\ st.i + 1 < Len(l) /\ At(l, st.i + 1) = "*" THEN "strong"
    ELSE IF At(l, st.i) = "*" THEN "em"
    ELSE IF At(l, st.i) = "[" THEN "linkOpen"
    ELSE IF At(l, st.i) = "]" THEN "linkClose"
    ELSE IF At(l, st.i) = "(" /\ st.inLinkText THEN "urlOpen"
    ELSE IF At(l, st.i) = ")" /\ st.inLinkURL THEN "urlClose"
    ELSE "default"

\* the switch with the single-asterisk case tested before the double one
ScanCaseEmFirst(l, st) ==
    IF At(l, st.i) = "*" /\ ~st.inStrong THEN "em"
    ELSE IF At(l, st.i) = "*" /\ st.i + 1 < Len(l) /\ At(l, st.i + 1) = "*" THEN "strong"
    ELSE IF At(l, st.i) = "[" THEN "linkOpen"
    ELSE IF At(l, st.i) = "]" THEN "linkClose"
    ELSE IF At(l, st.i) = "(" /\ st.inLinkText THEN "urlOpen"
    ELSE IF At(l, st.i) = ")" /\ st.inLinkURL THEN "urlClose"
    ELSE "default"

\* the switch of lines 336-370: the first case whose condition holds
ScanCase(l, st) ==
    IF At(l, st.i) = "*" /\ st.i + 1 < Len(l) /\ At(l, st.i + 1) = "*" THEN "strong"
    ELSE IF At(l, st.i) = "*" /\ ~st.inStrong THEN "em"
    ELSE IF At(l, st.i) = "[" THEN "linkOpen"
    ELSE IF At(l, st.i) = "]" THEN "linkClose"
    ELSE IF At(l, st.i) = "(" /\ st.inLinkText THEN "urlOpen"
    ELSE IF At(l, st.i) = ")" /\ st.inLinkURL THEN "urlClose"
    ELSE "default"

\* the double-asterisk case skipping two bytes besides the loop's own i++
StepStrongSkipTwo(l, st) ==
    IF st.inStrong
    THEN [st EXCEPT !.buf = @ \o TagStrongClose, !.inStrong = FALSE, !.i = @ + 3]
    ELSE [st EXCEPT !.buf = @ \o TagStrongOpen, !.inStrong = TRUE, !.i = @ + 3]

\* case line[i] == '*' && i+1 < len(line) && line[i+1] == '*'   (337-345)
StepStrong(l, st) ==
    IF st.inStrong
    THEN [st EXCEPT !.buf = @ \o TagStrongClose, !.inStrong = FALSE, !.i = @ + 2]
    ELSE [st EXCEPT !.buf = @ \o TagStrongOpen, !.inStrong = TRUE, !.i = @ + 2]

\* the single-asterisk case writing the opening tag whatever inEm is
StepEmOpensOnly(l, st) ==
    [st EXCEPT !.buf = @ \o TagEmOpen, !.inEm = ~@, !.i = @ + 1]

\* case line[i] == '*' && !inStrong   (346-353)
StepEm(l, st) ==
    IF st.inEm
    THEN [st EXCEPT !.buf = @ \o TagEmClose, !.inEm = FALSE, !.i = @ + 1]
    ELSE [st EXCEPT !.buf = @ \o TagEmOpen, !.inEm = TRUE, !.i = @ + 1]

\* case line[i] == '['   (354-355)
StepLinkOpen(l, st) == [st EXCEPT !.inLinkText = TRUE, !.i = @ + 1]

\* case line[i] == ']'   (356-357)
StepLinkClose(l, st) == [st EXCEPT !.inLinkText = FALSE, !.i = @ + 1]

\* case line[i] == '(' && inLinkText   (358-359)
StepUrlOpen(l, st) == [st EXCEPT !.inLinkURL = TRUE, !.i = @ + 1]

\* case line[i] == ')' && inLinkURL   (360-363)
StepUrlClose(l, st) ==
    [st EXCEPT !.inLinkURL = FALSE, !.buf = @ \o Anchor(st.linkText),
               !.linkText = <<>>, !.i = @ + 1]

\* default   (364-369)
StepDefault(l, st) ==
    IF st.inLinkURL
    THEN [st EXCEPT !.linkText = @ \o StringOfByte(At(l, st.i)), !.i = @ + 1]
    ELSE [st EXCEPT !.buf = Append(@, At(l, st.i)), !.i = @ + 1]

ScanStep(l, st) ==
    CASE ScanCase(l, st) = "strong"    -> StepStrong(l, st)
      [] ScanCase(l, st) = "em"        -> StepEm(l, st)
      [] ScanCase(l, st) = "linkOpen"  -> StepLinkOpen(l, st)
      [] ScanCase(l, st) = "linkClose" -> StepLinkClose(l, st)
      [] ScanCase(l, st) = "urlOpen"   -> StepUrlOpen(l, st)
      [] ScanCase(l, st) = "urlClose"  -> StepUrlClose(l, st)
      [] OTHER                         -> StepDefault(l, st)

RECURSIVE ScanLoop(_, _)
\* for i := 0; i < len(line); i++ { ... }; return buf.String()
ScanLoop(l, st) ==
    IF st.i < Len(l) THEN ScanLoop(l, ScanStep(l, st)) ELSE st.buf

parseInlineMarkdown(l) == ScanLoop(l, ScanInit)

(***************************************************************************)
(* loadBlogContent (lines 297-325).  A document is the sequence of lines   *)
(* bufio.Scanner delivers for the file.  A read may fail: a read failure   *)
(* rf says how many lines were delivered whole before the error (rf.at-1)  *)
(* and how many bytes of line rf.at were buffered when it struck (rf.cut); *)
(* the Scanner hands those bytes out as a last token and then stops with   *)
(* the error.  rf.at = 0 is a read without error.                          *)
(***************************************************************************)
NoFail == [at |-> 0, cut |-> 0]

ReadFails(d) ==
    {NoFail} \cup
    UNION {{[at |-> k, cut |-> c] : c \in 0..Len(d[k])} : k \in 1..Len(d)} \cup
    {[at |-> Len(d) + 1, cut |-> 0]}

\* the tokens scanner.Scan()/scanner.Text() deliver (lines 306-308)
Delivered(d, rf) ==
    IF rf.at = 0 THEN d
    ELSE SubSeq(d, 1, rf.at - 1) \o
         (IF rf.cut > 0 THEN <<SubSeq(d[rf.at], 1, rf.cut)>> ELSE <<>>)

H3Prefix == <<"#", "#", "#", " ">>
H2Prefix == <<"#", "#", " ">>
H1Prefix == <<"#", " ">>
LiPrefix == <<"-", " ">>

\* which branch of the if/else chain of lines 311-321 a line takes
BlockKind(l) ==
    IF HasPrefix(l, H3Prefix) THEN "h3"
    ELSE IF HasPrefix(l, H2Prefix) THEN "h2"
    ELSE IF HasPrefix(l, H1Prefix) THEN "h1"
    ELSE IF HasPrefix(l, LiPrefix) THEN "li"
    ELSE "p"

\* the loop body with every prefix cut as if it were two bytes long
BlockLineCutTwo(l) ==
    CASE BlockKind(l) = "h3" ->
            <<"<", "h", "3", ">">> \o SliceFrom(l, 2) \o <<"<", "/", "h", "3", ">">>
      [] BlockKind(l) = "h2" ->
            <<"<", "h", "2", ">">> \o SliceFrom(l, 2) \o <<"<", "/", "h", "2", ">">>
      [] BlockKind(l) = "h1" ->
            <<"<", "h", "1", ">">> \o SliceFrom(l, 2) \o <<"<", "/", "h", "1", ">">>
      [] BlockKind(l) = "li" ->
            <<"<", "u", "l", ">", "<", "l", "i", ">">> \o SliceFrom(l, 2)
                \o <<"<", "/", "l", "i", ">", "<", "/", "u", "l", ">">>
      [] OTHER -> parseInlineMarkdown(l) \o TagBr

\* what the loop body writes to the builder for one line (lines 311-321)
BlockLine(l) ==
    CASE BlockKind(l) = "h3" ->
            <<"<", "h", "3", ">">> \o SliceFrom(l, 4) \o <<"<", "/", "h", "3", ">">>
      [] BlockKind(l) = "h2" ->
            <<"<", "h", "2", ">">> \o SliceFrom(l, 3) \o <<"<", "/", "h", "2", ">">>
      [] BlockKind(l) = "h1" ->
            <<"<", "h", "1", ">">> \o SliceFrom(l, 2) \o <<"<", "/", "h", "1", ">">>
      [] BlockKind(l) = "li" ->
            <<"<", "u", "l", ">", "<", "l", "i", ">">> \o SliceFrom(l, 2)
                \o <<"<", "/", "l", "i", ">", "<", "/", "u", "l", ">">>
      [] OTHER -> parseInlineMarkdown(l) \o TagBr

RECURSIVE RenderLines(_, _)
\* for scanner.Scan() { html.WriteString(...) }: the builder after the lines ls
RenderLines(ls, acc) ==
    IF ls = <<>> THEN acc ELSE RenderLines(Tail(ls), acc \o BlockLine(Head(ls)))

(***************************************************************************)
(* The file store.  A tree is a function from the paths of its files to    *)
(* the document each holds; a directory exists when a file lies under it.  *)
(* Paths are relative to the working directory.                            *)
(***************************************************************************)
Root       == <<"c", "o", "n", "t", "e", "n", "t">>
RootPrefix == <<"c", "o", "n", "t", "e", "n", "t", "/">>
MdExt      == <<".", "m", "d">>
Sep        == <<"/">>

FilesOf(tree) == DOMAIN tree

IsFile(tree, p) == p \in FilesOf(tree)

IsDir(tree, p) == \E f \in FilesOf(tree) : HasPrefix(f, p \o Sep)

\* the directories of a tree, the root included
DirsOf(tree) ==
    {Root} \cup
    UNION {{SubSeq(f, 1, k - 1) : k \in {j \in (Len(Root) + 2)..Len(f) : f[j] = "/"}}
           : f \in FilesOf(tree)}

\* byte values, for the order of os.ReadDir's listing
Ord(c) ==
    CASE c = "." -> 46 [] c = "a" -> 97  [] c = "b" -> 98  [] c = "c" -> 99
      [] c = "d" -> 100 [] c = "e" -> 101 [] c = "m" -> 109 [] c = "n" -> 110
      [] c = "o" -> 111 [] c = "t" -> 116 [] c = "x" -> 120

RECURSIVE StrLess(_, _)
\* a < b for Go strings (bytewise)
StrLess(a, b) ==
    IF b = <<>> THEN FALSE
    ELSE IF a = <<>> THEN TRUE
    ELSE IF Head(a) # Head(b) THEN Ord(Head(a)) < Ord(Head(b))
    ELSE StrLess(Tail(a), Tail(b))

\* the first path segment of a relative path
FirstSegment(rest) ==
    IF \E k \in 1..Len(rest) : rest[k] = "/"
    THEN SubSeq(rest, 1, (CHOOSE k \in 1..Len(rest) :
                            /\ rest[k] = "/"
                            /\ \A j \in 1..(k - 1) : rest[j] # "/") - 1)
    ELSE rest

\* the entries of a directory: name and IsDir()
EntriesOf(tree, dir) ==
    {[name |-> FirstSegment(SliceFrom(f, Len(dir) + 1)),
      isDir |-> FirstSegment(SliceFrom(f, Len(dir) + 1)) # SliceFrom(f, Len(dir) + 1)]
        : f \in {g \in FilesOf(tree) : HasPrefix(g, dir \o Sep)}}

RECURSIVE SortByName(_)
SortByName(es) ==
    IF es = {} THEN <<>>
    ELSE LET m == CHOOSE e \in es : \A o \in es : o = e \/ StrLess(e.name, o.name)
         IN  <<m>> \o SortByName(es \ {m})

\* os.ReadDir(dir) (line 273): the entries sorted by filename
ReadDir(tree, dir) == SortByName(EntriesOf(tree, dir))

\* filepath.Join(dir, name) (line 279), for a clean dir and an entry name
Join(dir, name) == dir \o Sep \o name

(***************************************************************************)
(* buildBlogList (lines 266-295).  bad is the set of directories whose     *)
(* listing fails; the result is l.Slugs after the call and the error.      *)
(***************************************************************************)
\* the slug with the root prefix left on
SlugOfPathKeepRoot(path) == TrimSuffix(path, MdExt)

\* the slug with every trailing extension cut
SlugOfPathTrimAll(path) ==
    TrimSuffix(TrimSuffix(TrimPrefix(path, RootPrefix), MdExt), MdExt)

\* lines 287-288
SlugOfPath(path) == TrimSuffix(TrimPrefix(path, RootPrefix), MdExt)

\* the suffix test without its dot
IsMarkdownNameNoDot(name) == HasSuffix(name, <<"m", "d">>)

\* line 286
IsMarkdownName(name) == HasSuffix(name, MdExt)

RECURSIVE buildBlogListRecursive(_, _, _, _)
RECURSIVE LoopFiles(_, _, _, _, _, _, _)
\* the loop of lines 278-291 from entry k on, then lines 293-294
LoopFiles(tree, dir, files, k, S, markdownSlugs, bad) ==
    IF k > Len(files) THEN [Slugs |-> S \o markdownSlugs, err |-> "nil"]
    ELSE LET file == files[k]
             path == Join(dir, file.name)
         IN  IF file.isDir
             THEN LET r == buildBlogListRecursive(tree, path, S, bad)
                  IN  IF r.err # "nil" THEN r
                      ELSE LoopFiles(tree, dir, files, k + 1, r.Slugs, markdownSlugs, bad)
             ELSE IF IsMarkdownName(file.name)
             THEN LoopFiles(tree, dir, files, k + 1, S,
                            Append(markdownSlugs, SlugOfPath(path)), bad)
             ELSE LoopFiles(tree, dir, files, k + 1, S, markdownSlugs, bad)

buildBlogListRecursive(tree, dir, S, bad) ==
    IF dir \in bad THEN [Slugs |-> S, err |-> "EIO"]
    ELSE LoopFiles(tree, dir, ReadDir(tree, dir), 1, S, <<>>, bad)

\* line 267
buildBlogList(tree, S, bad) == buildBlogListRecursive(tree, Root, S, bad)

(***************************************************************************)
(* loadBlogContent and GetBlogContent as functions of the store and cache. *)
(***************************************************************************)
\* fmt.Sprintf("content/%s.md", slug)   (line 298)
DocPath(slug) == RootPrefix \o slug \o MdExt

\* lines 297-325: the pair (string, error) returned
loadBlogContent(tree, slug, rf) ==
    IF IsFile(tree, DocPath(slug))
    THEN [html |-> RenderLines(Delivered(tree[DocPath(slug)], rf), <<>>),
          err  |-> IF rf.at = 0 THEN "nil" ELSE "EIO"]
    ELSE IF IsDir(tree, DocPath(slug))
    THEN [html |-> <<>>, err |-> "EISDIR"]
    ELSE [html |-> <<>>, err |-> "ENOENT"]

\* the read failures a call for slug can meet
ReadFailsOf(tree, slug) ==
    IF IsFile(tree, DocPath(slug)) THEN ReadFails(tree[DocPath(slug)]) ELSE {NoFail}

\* GetBlogContent without the lookup of lines 251-254: every call renders
GetBlogContentNoLookup(C, tree, slug, rf) ==
    LET r == loadBlogContent(tree, slug, rf)
    IN  IF r.err # "nil"
        THEN [Content |-> C, content |-> <<>>, err |-> r.err, opens |-> 1]
        ELSE [Content |-> (slug :> r.html) @@ C, content |-> r.html,
              err |-> "nil", opens |-> 1]

\* GetBlogContent that drops the entry of a document that no longer opens
GetBlogContentEvicting(C, tree, slug, rf) ==
    IF slug \in DOMAIN C /\ IsFile(tree, DocPath(slug))
    THEN [Content |-> C, content |-> C[slug], err |-> "nil", opens |-> 1]
    ELSE LET r == loadBlogContent(tree, slug, rf)
         IN  IF r.err # "nil"
             THEN [Content |-> [t \in DOMAIN C \ {slug} |-> C[t]], content |-> <<>>,
                   err |-> r.err, opens |-> 1]
             ELSE [Content |-> (slug :> r.html) @@ C, content |-> r.html,
                   err |-> "nil", opens |-> 1]

\* GetBlogContent that remembers a failed lookup as an empty entry
GetBlogContentCachingFailure(C, tree, slug, rf) ==
    IF slug \in DOMAIN C
    THEN [Content |-> C, content |-> C[slug], err |-> "nil", opens |-> 0]
    ELSE LET r == loadBlogContent(tree, slug, rf)
         IN  IF r.err # "nil"
             THEN [Content |-> (slug :> <<>>) @@ C, content |-> <<>>,
                   err |-> r.err, opens |-> 1]
             ELSE [Content |-> (slug :> r.html) @@ C, content |-> r.html,
                   err |-> "nil", opens |-> 1]

\* GetBlogContent without the error check of lines 257-259
GetBlogContentNoErrCheck(C, tree, slug, rf) ==
    IF slug \in DOMAIN C
    THEN [Content |-> C, content |-> C[slug], err |-> "nil", opens |-> 0]
    ELSE LET r == loadBlogContent(tree, slug, rf)
         IN  [Content |-> (slug :> r.html) @@ C, content |-> r.html,
              err |-> r.err, opens |-> 1]

\* lines 250-263: the map after the call, the pair returned, and the number
\* of os.Open calls made
GetBlogContentResult(C, tree, slug, rf) ==
    IF slug \in DOMAIN C
    THEN [Content |-> C, content |-> C[slug], err |-> "nil", opens |-> 0]
    ELSE LET r == loadBlogContent(tree, slug, rf)
         IN  IF r.err # "nil"
             THEN [Content |-> C, content |-> <<>>, err |-> r.err, opens |-> 1]
             ELSE [Content |-> (slug :> r.html) @@ C, content |-> r.html,
                   err |-> "nil", opens |-> 1]

(***************************************************************************)
(* The documents, files and slugs of the cache specification.              *)
(***************************************************************************)
DocA == << <<"#", " ", "a">>, <<"*", "a">> >>

DocB == << <<"-", " ", "a">>, <<"[", "a", "]", "(", "b", ")">> >>

Docs == {DocA, DocB}

SlugA == <<"a">>

SlugDB == <<"d", "/", "b">>

ReqSlugs == {SlugA, SlugDB}

CacheFiles == {DocPath(s) : s \in ReqSlugs}

NoCall ==
    [op |-> "none", slug |-> <<>>, content |-> <<>>, err |-> "nil", opens |-> 0,
     seenBefore |-> FALSE, afterFail |-> FALSE, stale |-> FALSE]

IdleLigma ==
    /\ Content = <<>>
    /\ Slugs = <<>>
    /\ ret = NoCall
    /\ firstRet = <<>>
    /\ nDiscover = 0

IdleConc ==
    /\ procs = <<>>
    /\ mapWriting = {}
    /\ crashed = FALSE
    /\ nEdits = 0

IdleInline ==
    /\ line = <<>>
    /\ i = 0
    /\ buf = <<>>
    /\ inStrong = FALSE
    /\ inEm = FALSE
    /\ inLinkText = FALSE
    /\ inLinkURL = FALSE
    /\ linkText = <<>>
    /\ ipc = "idle"

IdleRender ==
    /\ doc = <<>>
    /\ pos = 0
    /\ html = <<>>
    /\ rpc = "idle"

(***************************************************************************)
(* The cache specification: sequential calls on one LIGMA instance, with   *)
(* the store changing between calls.                                       *)
(***************************************************************************)
\* NewLIGMA (lines 242-247) over some store
Init ==
    /\ IdleLigma
    /\ fs \in UNION {[F -> Docs] : F \in SUBSET CacheFiles}
    /\ IdleConc /\ IdleInline /\ IdleRender

\* a call l.GetBlogContent(slug)
GetBlogContent(slug) ==
    \E rf \in (IF slug \in DOMAIN Content THEN {NoFail} ELSE ReadFailsOf(fs, slug)) :
        LET r == GetBlogContentResult(Content, fs, slug, rf)
        IN  /\ Content' = r.Content
            /\ ret' = [op |-> "GetBlogContent", slug |-> slug, content |-> r.content,
                       err |-> r.err, opens |-> r.opens,
                       seenBefore |-> slug \in DOMAIN firstRet,
                       afterFail |-> /\ ret.op = "GetBlogContent"
                                     /\ ret.slug = slug
                                     /\ ret.err = "ENOENT",
                       stale |-> /\ slug \in DOMAIN Content
                                 /\ IsFile(fs, DocPath(slug))
                                 /\ RenderLines(fs[DocPath(slug)], <<>>) # Content[slug]]
            /\ firstRet' = IF r.err = "nil" /\ slug \notin DOMAIN firstRet
                           THEN (slug :> r.content) @@ firstRet
                           ELSE firstRet
            /\ UNCHANGED <<Slugs, fs, nDiscover, varsConc, varsInline, varsRender>>

\* a call l.buildBlogList()
BuildBlogList ==
    /\ nDiscover < MaxDiscover
    /\ \E bad \in {{}} \cup {{d} : d \in DirsOf(fs)} :
        LET r == buildBlogList(fs, Slugs, bad)
        IN  /\ Slugs' = r.Slugs
            /\ ret' = [NoCall EXCEPT !.op = "buildBlogList", !.err = r.err]
    /\ nDiscover' = nDiscover + 1
    /\ UNCHANGED <<Content, fs, firstRet, varsConc, varsInline, varsRender>>

\* the store changes: a document is written (created or edited)
WriteFile(p, d) ==
    /\ p \in DOMAIN fs => fs[p] # d
    /\ fs' = (p :> d) @@ fs
    /\ UNCHANGED <<Content, Slugs, ret, firstRet, nDiscover, varsConc, varsInline, varsRender>>

\* the store changes: a document is removed
RemoveFile(p) ==
    /\ p \in DOMAIN fs
    /\ fs' = [q \in DOMAIN fs \ {p} |-> fs[q]]
    /\ UNCHANGED <<Content, Slugs, ret, firstRet, nDiscover, varsConc, varsInline, varsRender>>

Next ==
    \/ \E s \in ReqSlugs : GetBlogContent(s)
    \/ BuildBlogList
    \/ \E p \in CacheFiles, d \in Docs : WriteFile(p, d)
    \/ \E p \in CacheFiles : RemoveFile(p)

Spec == Init /\ [][Next]_vars

(***************************************************************************)
(* The discovery specification: one buildBlogList call on a fresh LIGMA    *)
(* over any tree of at most MaxFiles files, nested up to two directories   *)
(* deep, and then a GetBlogContent call for one of the slugs it listed.    *)
(***************************************************************************)
FileNames ==
    { <<"a", ".", "m", "d">>, <<"b", ".", "m", "d", ".", "m", "d">>,
      <<"n", ".", "t", "x", "t">>, <<"a", "m", "d">> }

DirNames == { <<"d">>, Root, <<"x", ".", "m", "d">> }

DirPaths ==
    {Root} \cup {Join(Root, a) : a \in DirNames}
           \cup {Join(Join(Root, a), b) : a \in DirNames, b \in DirNames}

CandidateFiles == {Join(d, n) : d \in DirPaths, n \in FileNames}

RECURSIVE SubsetsUpTo(_, _)
SubsetsUpTo(S, n) ==
    IF n = 0 THEN {{}}
    ELSE LET prev == SubsetsUpTo(S, n - 1)
         IN  prev \cup {T \cup {x} : T \in prev, x \in S}

InitDiscovery ==
    /\ IdleLigma
    /\ fs \in {[f \in F |-> DocA] : F \in SubsetsUpTo(CandidateFiles, MaxFiles)}
    /\ IdleConc /\ IdleInline /\ IdleRender

FirstBuildBlogList == nDiscover = 0 /\ BuildBlogList

\* l.GetBlogContent(l.Slugs[k]) right after the list was built
GetDiscovered ==
    /\ ret.op = "buildBlogList"
    /\ \E k \in 1..Len(Slugs) : GetBlogContent(Slugs[k])

NextDiscovery ==
    \/ FirstBuildBlogList
    \/ GetDiscovered

SpecDiscovery == InitDiscovery /\ [][NextDiscovery]_vars

(***************************************************************************)
(* The transducer specification: parseInlineMarkdown on any line of at     *)
(* most MaxLineLen bytes, and on the link lines [t](u), one loop           *)
(* iteration per step.                                                     *)
(***************************************************************************)
InlineChars == {"*", "[", "]", "(", ")", "a"}

\* bytes that no case of the switch names: a letter and a non-ASCII byte
PlainChars == {"a", "xC3"}

SeqsUpTo(S, n) == UNION {[1..k -> S] : k \in 0..n}

Texts == SeqsUpTo(PlainChars, MaxTextLen)

LinkLine(t, u) == <<"[">> \o t \o <<"]", "(">> \o u \o <<")">>

LinkLines == {LinkLine(t, u) : t \in Texts, u \in Texts}

\* the lines **t**
StrongLine(t) == <<"*", "*">> \o t \o <<"*", "*">>

StrongLines == {StrongLine(t) : t \in Texts}

\* lines of asterisks and letters only, longer than the general lines
StarLines == SeqsUpTo({"*", "a"}, MaxLineLen + 4)

InlineLines ==
    SeqsUpTo(InlineChars, MaxLineLen) \cup LinkLines \cup StrongLines \cup StarLines

\* the locals of the running call
Cur ==
    [i |-> i, buf |-> buf, inStrong |-> inStrong, inEm |-> inEm,
     inLinkText |-> inLinkText, inLinkURL |-> inLinkURL, linkText |-> linkText]

SetCur(st) ==
    /\ i' = st.i
    /\ buf' = st.buf
    /\ inStrong' = st.inStrong
    /\ inEm' = st.inEm
    /\ inLinkText' = st.inLinkText
    /\ inLinkURL' = st.inLinkURL
    /\ linkText' = st.linkText

\* a call parseInlineMarkdown(line), at its loop (lines 328-335)
InitInline ==
    /\ line \in InlineLines
    /\ i = 0
    /\ buf = <<>>
    /\ inStrong = FALSE
    /\ inEm = FALSE
    /\ inLinkText = FALSE
    /\ inLinkURL = FALSE
    /\ linkText = <<>>
    /\ ipc = "loop"
    /\ IdleLigma /\ fs = <<>> /\ IdleConc /\ IdleRender

\* the loop is at an iteration that takes the case named c
AtCase(c) ==
    /\ ipc = "loop"
    /\ i < Len(line)
    /\ ScanCase(line, Cur) = c

ScanStrong ==
    /\ AtCase("strong")
    /\ SetCur(StepStrong(line, Cur))
    /\ UNCHANGED <<line, ipc, varsLigma, varsConc, varsRender>>

ScanEm ==
    /\ AtCase("em")
    /\ SetCur(StepEm(line, Cur))
    /\ UNCHANGED <<line, ipc, varsLigma, varsConc, varsRender>>

ScanLinkOpen ==
    /\ AtCase("linkOpen")
    /\ SetCur(StepLinkOpen(line, Cur))
    /\ UNCHANGED <<line, ipc, varsLigma, varsConc, varsRender>>

ScanLinkClose ==
    /\ AtCase("linkClose")
    /\ SetCur(StepLinkClose(line, Cur))
    /\ UNCHANGED <<line, ipc, varsLigma, varsConc, varsRender>>

ScanUrlOpen ==
    /\ AtCase("urlOpen")
    /\ SetCur(StepUrlOpen(line, Cur))
    /\ UNCHANGED <<line, ipc, varsLigma, varsConc, varsRender>>

ScanUrlClose ==
    /\ AtCase("urlClose")
    /\ SetCur(StepUrlClose(line, Cur))
    /\ UNCHANGED <<line, ipc, varsLigma, varsConc, varsRender>>

ScanDefault ==
    /\ AtCase("default")
    /\ SetCur(StepDefault(line, Cur))
    /\ UNCHANGED <<line, ipc, varsLigma, varsConc, varsRender>>

\* the loop condition fails: return buf.String() (line 372)
ScanReturn ==
    /\ ipc = "loop"
    /\ i >= Len(line)
    /\ ipc' = "returned"
    /\ UNCHANGED <<line, i, buf, inStrong, inEm, inLinkText, inLinkURL, linkText,
                   varsLigma, varsConc, varsRender>>

NextInline ==
    \/ ScanStrong
    \/ ScanEm
    \/ ScanLinkOpen
    \/ ScanLinkClose
    \/ ScanUrlOpen
    \/ ScanUrlClose
    \/ ScanDefault
    \/ ScanReturn

SpecInline == InitInline /\ [][NextInline]_vars

(***************************************************************************)
(* The renderer specification: the scan loop of loadBlogContent over any   *)
(* opened document of at most MaxDocLines lines, one line per step, with   *)
(* a read error possible at any point.                                     *)
(***************************************************************************)
LinePrefixes == {H3Prefix, H2Prefix, H1Prefix, LiPrefix, <<>>, <<"#">>, <<"-">>}

LineBodies == {<<>>, <<"a">>, <<"*", "a">>, <<"*", "*", "a">>}

RenderLineSet == {p \o b : p \in LinePrefixes, b \in LineBodies}

\* os.Open succeeded (line 298); the builder is empty (line 304)
InitRender ==
    /\ doc \in SeqsUpTo(RenderLineSet, MaxDocLines)
    /\ pos = 0
    /\ html = <<>>
    /\ rpc = "scan"
    /\ IdleLigma /\ fs = <<>> /\ IdleConc /\ IdleInline

\* scanner.Scan() delivers the next line and it takes branch kind
AtBlock(kind) ==
    /\ rpc = "scan"
    /\ pos < Len(doc)
    /\ BlockKind(doc[pos + 1]) = kind

WriteLine ==
    /\ html' = html \o BlockLine(doc[pos + 1])
    /\ pos' = pos + 1
    /\ UNCHANGED <<doc, rpc, varsLigma, varsConc, varsInline>>

RenderH3 ==
    /\ AtBlock("h3")
    /\ WriteLine

RenderH2 ==
    /\ AtBlock("h2")
    /\ WriteLine

RenderH1 ==
    /\ AtBlock("h1")
    /\ WriteLine

RenderLi ==
    /\ AtBlock("li")
    /\ WriteLine

RenderParagraph ==
    /\ AtBlock("p")
    /\ WriteLine

\* the read fails with cut bytes of the next line buffered: the Scanner
\* delivers them as its last token, Scan() then returns false and
\* loadBlogContent returns html.String() with scanner.Err() (line 324)
ReadError(cut) ==
    /\ rpc = "scan"
    /\ html' = IF cut > 0 THEN html \o BlockLine(SubSeq(doc[pos + 1], 1, cut)) ELSE html
    /\ rpc' = "failed"
    /\ UNCHANGED <<doc, pos, varsLigma, varsConc, varsInline>>

\* end of file: Scan() returns false, scanner.Err() is nil (line 324)
RenderReturn ==
    /\ rpc = "scan"
    /\ pos = Len(doc)
    /\ rpc' = "returned"
    /\ UNCHANGED <<doc, pos, html, varsLigma, varsConc, varsInline>>

NextRender ==
    \/ RenderH3
    \/ RenderH2
    \/ RenderH1
    \/ RenderLi
    \/ RenderParagraph
    \/ \E cut \in 0..(IF pos < Len(doc) THEN Len(doc[pos + 1]) ELSE 0) : ReadError(cut)
    \/ RenderReturn

SpecRender == InitRender /\ [][NextRender]_vars

(***************************************************************************)
(* The concurrent specification: two goroutines (net/http runs each         *)
(* request in its own) call GetBlogContent on one LIGMA, which has no lock  *)
(* (lines 237-240).  A call is the map read of line 251, the render of      *)
(* line 256 and the map assignment of line 261.  Go maps are not safe for   *)
(* concurrent use: an assignment is not atomic, and an access to the map    *)
(* made while another goroutine is inside an assignment is a data race,     *)
(* which the runtime may answer with a fatal error ("concurrent map         *)
(* writes", "concurrent map read and map write") or let pass.               *)
(***************************************************************************)
Goroutines == {"g1", "g2"}

NotCalled ==
    [pc |-> "start", slug |-> <<>>, parsedContent |-> <<>>, content |-> <<>>,
     err |-> "nil", hit |-> FALSE]

InitConc ==
    /\ IdleLigma
    /\ fs \in UNION {[F -> Docs] : F \in SUBSET CacheFiles}
    /\ procs = [g \in Goroutines |-> NotCalled]
    /\ mapWriting = {}
    /\ crashed = FALSE
    /\ nEdits = 0
    /\ IdleInline /\ IdleRender

\* another goroutine is inside the assignment of line 261
OtherWriting(g) == mapWriting \ {g} # {}

\* goroutine g enters GetBlogContent(slug)
Call(g, slug) ==
    /\ ~crashed
    /\ procs[g].pc = "start"
    /\ procs' = [procs EXCEPT ![g] = [@ EXCEPT !.pc = "check", !.slug = slug]]
    /\ UNCHANGED <<varsLigma, mapWriting, crashed, nEdits, varsInline, varsRender>>

\* lines 251-254
Check(g) ==
    /\ ~crashed
    /\ procs[g].pc = "check"
    /\ procs' = [procs EXCEPT ![g] =
            IF procs[g].slug \in DOMAIN Content
            THEN [@ EXCEPT !.pc = "done", !.content = Content[procs[g].slug],
                           !.hit = TRUE]
            ELSE [@ EXCEPT !.pc = "render"]]
    /\ UNCHANGED <<varsLigma, mapWriting, crashed, nEdits, varsInline, varsRender>>

\* lines 256-259
Render(g) ==
    /\ ~crashed
    /\ procs[g].pc = "render"
    /\ \E rf \in ReadFailsOf(fs, procs[g].slug) :
        LET r == loadBlogContent(fs, procs[g].slug, rf)
        IN  procs' = [procs EXCEPT ![g] =
                IF r.err # "nil"
                THEN [@ EXCEPT !.pc = "done", !.content = <<>>, !.err = r.err]
                ELSE [@ EXCEPT !.pc = "store", !.parsedContent = r.html]]
    /\ UNCHANGED <<varsLigma, mapWriting, crashed, nEdits, varsInline, varsRender>>

\* line 261: the assignment begins
StoreBegin(g) ==
    /\ ~crashed
    /\ procs[g].pc = "store"
    /\ mapWriting' = mapWriting \cup {g}
    /\ procs' = [procs EXCEPT ![g] = [@ EXCEPT !.pc = "storing"]]
    /\ UNCHANGED <<varsLigma, crashed, nEdits, varsInline, varsRender>>

\* line 261: the assignment ends; line 262
StoreEnd(g) ==
    /\ ~crashed
    /\ procs[g].pc = "storing"
    /\ Content' = (procs[g].slug :> procs[g].parsedContent) @@ Content
    /\ mapWriting' = mapWriting \ {g}
    /\ procs' = [procs EXCEPT ![g] =
            [@ EXCEPT !.pc = "done", !.content = procs[g].parsedContent]]
    /\ UNCHANGED <<Slugs, fs, ret, firstRet, nDiscover, crashed, nEdits,
                   varsInline, varsRender>>

\* goroutine g is about to read or write the map while another goroutine is
\* inside an assignment: the runtime detects it and aborts the process
RaceAbort(g) ==
    /\ ~crashed
    /\ procs[g].pc \in {"check", "store", "storing"}
    /\ OtherWriting(g)
    /\ crashed' = TRUE
    /\ UNCHANGED <<varsLigma, procs, mapWriting, nEdits, varsInline, varsRender>>

\* the store changes while the goroutines run
EditConc(p, d) ==
    /\ ~crashed
    /\ nEdits < MaxEdits
    /\ p \in DOMAIN fs => fs[p] # d
    /\ fs' = (p :> d) @@ fs
    /\ nEdits' = nEdits + 1
    /\ UNCHANGED <<Content, Slugs, ret, firstRet, nDiscover, procs, mapWriting,
                   crashed, varsInline, varsRender>>

NextConc ==
    \/ \E g \in Goroutines, s \in ReqSlugs : Call(g, s)
    \/ \E g \in Goroutines : Check(g)
    \/ \E g \in Goroutines : Render(g)
    \/ \E g \in Goroutines : StoreBegin(g)
    \/ \E g \in Goroutines : StoreEnd(g)
    \/ \E g \in Goroutines : RaceAbort(g)
    \/ \E p \in CacheFiles, d \in Docs : EditConc(p, d)

SpecConc == InitConc /\ [][NextConc]_vars

(***************************************************************************)
(* Claims about the cache (specification Spec).                            *)
(***************************************************************************)
IsGet == ret.op = "GetBlogContent"

\* the markup of the whole of a document
FullRender(d) == RenderLines(d, <<>>)

\* C1: once GetBlogContent(s) has returned successfully, every later
\* GetBlogContent(s) returns the markup the first call returned and opens
\* no file, whatever was called or changed in between.
C1_CacheHit ==
    (IsGet /\ ret.seenBefore) =>
        /\ ret.err = "nil"
        /\ ret.content = firstRet[ret.slug]
        /\ ret.opens = 0

\* a later call answered from the cache, after a discovery call and with the
\* other slug cached too
C1_Witness ==
    /\ IsGet /\ ret.seenBefore
    /\ ret.opens = 0 /\ ret.content = firstRet[ret.slug]
    /\ nDiscover > 0
    /\ DOMAIN Content = ReqSlugs

\* C2: a GetBlogContent(s) whose document cannot be opened returns an error
\* and leaves Content exactly as it was; the call after a failed one opens the
\* document again, and succeeds if the document is there and reads.
C2_FailedLookup ==
    [][\A s \in ReqSlugs :
        (GetBlogContent(s) /\ s \notin DOMAIN Content) =>
            /\ ~IsFile(fs, DocPath(s)) =>
                  /\ ret'.err # "nil"
                  /\ ret'.content = <<>>
                  /\ Content' = Content
            /\ (IsGet /\ ret.slug = s /\ ret.err # "nil") =>
                  /\ ret'.opens = 1
                  /\ IsFile(fs, DocPath(s)) =>
                        /\ ret'.err \in {"nil", "EIO"}
                        /\ ret'.err = "nil" =>
                              /\ ret'.content = FullRender(fs[DocPath(s)])
                              /\ Content'[s] = ret'.content]_vars

\* a lookup that failed with not-found was retried after the document
\* appeared, and succeeded
C2_Witness ==
    /\ IsGet /\ ret.afterFail
    /\ ret.err = "nil"
    /\ ret.slug \in DOMAIN Content

\* C3: an entry of Content is only ever written by a GetBlogContent call that
\* returned no error, and is then the markup of all the lines of the document
\* of that slug; a call that failed writes nothing.
C3_NoPartialMarkup ==
    [][/\ \A s \in DOMAIN Content' :
            (s \notin DOMAIN Content \/ Content'[s] # Content[s]) =>
                /\ ret'.op = "GetBlogContent" /\ ret'.slug = s /\ ret'.err = "nil"
                /\ IsFile(fs, DocPath(s))
                /\ Content'[s] = FullRender(fs[DocPath(s)])
       /\ \A s \in ReqSlugs :
            (GetBlogContent(s) /\ ret'.err # "nil") => Content' = Content]_vars

\* a read that failed part-way left no entry for its slug
C3_Witness ==
    /\ IsGet /\ ret.err = "EIO"
    /\ ret.slug \notin DOMAIN Content
    /\ Content # <<>>

\* C4: every successful buildBlogList call, the first or a later one, leaves
\* in Slugs the list one walk of the store as it is then produces.
C4_DiscoveryNoMemory ==
    [][(nDiscover' = nDiscover + 1 /\ ret'.err = "nil") =>
            Slugs' = buildBlogList(fs, <<>>, {}).Slugs]_vars

\* C7: an entry of Content is never removed or changed, and is the markup of
\* the first successful render of its slug, which is what GetBlogContent
\* keeps returning after the document is edited or deleted.
C7_EntriesPermanent ==
    [][/\ \A s \in DOMAIN Content :
            /\ s \in DOMAIN Content'
            /\ Content'[s] = Content[s]
            /\ s \in DOMAIN firstRet /\ firstRet[s] = Content[s]
       /\ \A s \in DOMAIN Content :
            GetBlogContent(s) => (ret'.err = "nil" /\ ret'.content = Content[s])]_vars

\* GetBlogContent answered with the first render although the document had
\* been edited and rendered differently when it was called
C7_Witness ==
    /\ IsGet /\ ret.seenBefore /\ ret.stale
    /\ ret.content = Content[ret.slug]
    /\ ret.content = firstRet[ret.slug]

(***************************************************************************)
(* Claims about discovery (specification SpecDiscovery).                   *)
(***************************************************************************)
\* the files whose path ends in .md
MdFilesOf(tree) ==
    {f \in DOMAIN tree :
        /\ f[Len(f) - 2] = "." /\ f[Len(f) - 1] = "m" /\ f[Len(f)] = "d"}

\* the path relative to the root, without its last three bytes
RelativeNoExt(f) == SubSeq(f, Len(Root) + 2, Len(f) - 3)

\* C5: one buildBlogList call on a fresh instance leaves in Slugs exactly one
\* slug per .md file, the path below the root without the suffix, each once,
\* and nothing for the other files or for directories.
C5_DiscoveryResult ==
    (ret.op = "buildBlogList" /\ ret.err = "nil") =>
        /\ \A f \in MdFilesOf(fs) :
              Cardinality({k \in 1..Len(Slugs) : Slugs[k] = RelativeNoExt(f)}) = 1
        /\ \A k \in 1..Len(Slugs) : \E f \in MdFilesOf(fs) : Slugs[k] = RelativeNoExt(f)
        /\ Len(Slugs) = Cardinality(MdFilesOf(fs))

\* a walk that found a nested .md file and passed over another file
C5_Witness ==
    /\ ret.op = "buildBlogList" /\ ret.err = "nil"
    /\ \E k \in 1..Len(Slugs) : \E j \in 1..Len(Slugs[k]) : Slugs[k][j] = "/"
    /\ DOMAIN fs # MdFilesOf(fs)

(***************************************************************************)
(* Claims about the transducer (specification SpecInline).                 *)
(***************************************************************************)
Contains(l, c) == \E k \in 1..Len(l) : l[k] = c

\* C8: for a line [t](u) with t and u free of * [ ] ( ), the value returned
\* is exactly <a href="u">u</a>.
C8_LinkRewriting ==
    \A t \in Texts, u \in Texts :
        (ipc = "returned" /\ line = LinkLine(t, u)) => buf = Anchor(u)

\* C9, as claimed: a line with none of * [ ( is returned unchanged.
C9_PassThrough ==
    (/\ ipc = "returned"
     /\ ~Contains(line, "*") /\ ~Contains(line, "[") /\ ~Contains(line, "(")) =>
        buf = line

\* C9, amended: a line with none of * [ ] ( is returned unchanged; a ) may
\* occur.
C9_PassThroughAmended ==
    (/\ ipc = "returned"
     /\ ~Contains(line, "*") /\ ~Contains(line, "[") /\ ~Contains(line, "]")
     /\ ~Contains(line, "(")) =>
        buf = line

\* a line with a ) and ordinary bytes came back unchanged
C9_Witness ==
    /\ ipc = "returned"
    /\ Contains(line, ")") /\ Contains(line, "a")
    /\ ~Contains(line, "*") /\ ~Contains(line, "[") /\ ~Contains(line, "]")
    /\ ~Contains(line, "(")
    /\ buf = line

(***************************************************************************)
(* Claims about the renderer (specification SpecRender).                   *)
(***************************************************************************)
\* the piece of one line, by the rule table of the claim
PieceOf(l) ==
    IF Len(l) >= 4 /\ l[1] = "#" /\ l[2] = "#" /\ l[3] = "#" /\ l[4] = " "
    THEN <<"<", "h", "3", ">">> \o SubSeq(l, 5, Len(l)) \o <<"<", "/", "h", "3", ">">>
    ELSE IF Len(l) >= 3 /\ l[1] = "#" /\ l[2] = "#" /\ l[3] = " "
    THEN <<"<", "h", "2", ">">> \o SubSeq(l, 4, Len(l)) \o <<"<", "/", "h", "2", ">">>
    ELSE IF Len(l) >= 2 /\ l[1] = "#" /\ l[2] = " "
    THEN <<"<", "h", "1", ">">> \o SubSeq(l, 3, Len(l)) \o <<"<", "/", "h", "1", ">">>
    ELSE IF Len(l) >= 2 /\ l[1] = "-" /\ l[2] = " "
    THEN <<"<", "u", "l", ">", "<", "l", "i", ">">> \o SubSeq(l, 3, Len(l))
            \o <<"<", "/", "l", "i", ">", "<", "/", "u", "l", ">">>
    ELSE parseInlineMarkdown(l) \o <<"<", "b", "r", ">">>

RECURSIVE PiecesOf(_)
PiecesOf(ls) == IF ls = <<>> THEN <<>> ELSE PieceOf(Head(ls)) \o PiecesOf(Tail(ls))

\* C10: while the document reads without error, the builder holds the pieces
\* of the lines scanned so far, in file order and with nothing between them,
\* each piece chosen from its own line by the first matching rule; the value
\* returned is that of all the lines.
C10_BlockClassification ==
    /\ rpc \in {"scan", "returned"} => html = PiecesOf(SubSeq(doc, 1, pos))
    /\ rpc = "returned" => pos = Len(doc) /\ html = PiecesOf(doc)

\* a document of a list line, then a line with an unclosed span, rendered to
\* the end
C10_Witness ==
    /\ rpc = "returned"
    /\ Len(doc) = 2
    /\ HasPrefix(doc[1], LiPrefix)
    /\ doc[2] = <<"*", "*", "a">>
    /\ html = PieceOf(doc[1]) \o TagStrongOpen \o <<"a">> \o TagBr

(***************************************************************************)
(* Claims about concurrent calls (specification SpecConc).                 *)
(***************************************************************************)
\* both goroutines were called for slug s and found it not cached (both are
\* past the check of line 252), over a document that exists, is not changed
\* and reads without error
TwoMisses(s) ==
    /\ nEdits = 0
    /\ IsFile(fs, DocPath(s))
    /\ \A g \in Goroutines :
          /\ procs[g].pc \in {"render", "store", "storing", "done"}
          /\ procs[g].slug = s
          /\ ~procs[g].hit
          /\ procs[g].err # "EIO"

\* C6: two unsynchronized GetBlogContent(s) calls that both miss never reach
\* a violation: the process is not aborted, and when both have returned both
\* returned the markup of the document, which is the entry Content[s].
C6_ConcurrentMissesHarmless ==
    \A s \in ReqSlugs :
        TwoMisses(s) =>
            /\ ~crashed
            /\ (\A g \in Goroutines : procs[g].pc = "done") =>
                  /\ \A g \in Goroutines :
                        /\ procs[g].err = "nil"
                        /\ procs[g].content = FullRender(fs[DocPath(s)])
                  /\ s \in DOMAIN Content
                  /\ Content[s] = FullRender(fs[DocPath(s)])

(***************************************************************************)
(* Claims about the asterisk cases of the transducer (specification        *)
(* SpecInline).                                                            *)
(***************************************************************************)
\* the loop is at index i of the line with a second '*' right after a '*'
AtDoubleAsterisk ==
    /\ ipc = "loop"
    /\ i + 1 < Len(line)
    /\ At(line, i) = "*"
    /\ At(line, i + 1) = "*"

\* C11: an iteration at a position where the current and the next byte are
\* both '*' flips inStrong, appends to the output the one tag <strong> (mode
\* was off) or </strong> (mode was on) and nothing else, leaves inEm alone
\* and goes on two bytes further; and the call on a line **t** returns
\* <strong>t</strong>.
C11_DoubleAsteriskPrecedence ==
    [][/\ (AtDoubleAsterisk /\ i' # i) =>
              /\ inStrong' = ~inStrong
              /\ buf' = buf \o (IF inStrong THEN TagStrongClose ELSE TagStrongOpen)
              /\ inEm' = inEm
              /\ i' = i + 2
       /\ (ipc' = "returned" /\ line \in StrongLines) =>
              buf' = TagStrongOpen \o SubSeq(line, 3, Len(line) - 2) \o TagStrongClose
      ]_vars

\* the call on **t**, t one non-ASCII byte, has returned <strong>t</strong>
C11_Witness ==
    /\ ipc = "returned"
    /\ line = StrongLine(<<"xC3">>)
    /\ buf = TagStrongOpen \o <<"xC3">> \o TagStrongClose

\* how many times the bytes of tag occur in s
Occurrences(s, tag) ==
    Cardinality({k \in 1..(Len(s) - Len(tag) + 1) :
                    SubSeq(s, k, k + Len(tag) - 1) = tag})

NumAsterisks(l) == Cardinality({k \in 1..Len(l) : l[k] = "*"})

NoLinkChars(l) == \A k \in 1..Len(l) : l[k] \notin {"[", "]", "(", ")"}

NoAdjacentAsterisks(l) == \A k \in 1..(Len(l) - 1) : ~(l[k] = "*" /\ l[k + 1] = "*")

\* the returned string has one more <em> than </em>
EmLeftOpen == Occurrences(buf, TagEmOpen) = Occurrences(buf, TagEmClose) + 1

\* C12: for every line with an odd number of '*' and no link character, the
\* string returned has one more <em> than </em>.
C12_OddAsterisks ==
    (ipc = "returned" /\ NoLinkChars(line) /\ NumAsterisks(line) % 2 = 1)
        => EmLeftOpen

\* C12 as amended: for every line with an odd number of '*', no two of them
\* adjacent, and no link character, the string returned has one more <em>
\* than </em>.
C12_OddAsterisksAmended ==
    (/\ ipc = "returned"
     /\ NoLinkChars(line)
     /\ NoAdjacentAsterisks(line)
     /\ NumAsterisks(line) % 2 = 1)
        => EmLeftOpen

\* three separate asterisks: a closed span and then an open one
C12_Witness ==
    /\ ipc = "returned"
    /\ line = <<"*", "a", "*", "a", "*">>
    /\ buf = TagEmOpen \o <<"a">> \o TagEmClose \o <<"a">> \o TagEmOpen

(***************************************************************************)
(* Claims about the shape of slugs (specification SpecDiscovery).          *)
(***************************************************************************)
ContainsSeq(s, sub) == Occurrences(s, sub) > 0

SlugShape(s) == ~ContainsSeq(s, RootPrefix) /\ ~HasSuffix(s, MdExt)

\* C13: no slug in the Slug List contains (or starts with) content/ and none
\* ends with .md, whatever the names of the directories and files of the tree.
C13_SlugShape == \A k \in 1..Len(Slugs) : SlugShape(Slugs[k])

\* no directory below the root has a name ending in "content", and no file
\* name repeats the extension
PlainNames(tree) ==
    \A f \in FilesOf(tree) :
        /\ ~ContainsSeq(SliceFrom(f, Len(RootPrefix)), RootPrefix)
        /\ ~HasSuffix(f, MdExt \o MdExt)

\* C13 as amended: over a tree in which no directory below the root has a
\* name ending in "content" and no file name repeats the extension, no slug
\* in the Slug List contains (or starts with) content/ and none ends with .md.
C13_SlugShapeAmended == PlainNames(fs) => C13_SlugShape

\* a walk that took a slug from a file below a directory named x.md
C13_Witness ==
    /\ ret.op = "buildBlogList"
    /\ ret.err = "nil"
    /\ PlainNames(fs)
    /\ Slugs = << <<"x", ".", "m", "d", "/", "d", "/", "a">> >>

(***************************************************************************)
(* Claims about the length of the transducer's output (specification       *)
(* SpecInline).                                                            *)
(***************************************************************************)
\* C14: the string parseInlineMarkdown returns is at least as long as the
\* line it was given.
C14_OutputNeverShrinks == ipc = "returned" => Len(buf) >= Len(line)

NoBrackets(l) == \A k \in 1..Len(l) : l[k] \notin {"[", "]"}

\* C14 as amended: for every line that contains neither '[' nor ']', the
\* string parseInlineMarkdown returns is at least as long as the line.
C14_OutputNeverShrinksAmended ==
    (ipc = "returned" /\ NoBrackets(line)) => Len(buf) >= Len(line)

\* a line with parentheses and an asterisk and no bracket: the parentheses
\* are copied and the asterisk becomes a tag
C14_Witness ==
    /\ ipc = "returned"
    /\ line = <<"(", "a", ")", "*">>
    /\ buf = <<"(", "a", ")">> \o TagEmOpen

(***************************************************************************)
(* Claims about a read that fails (specification SpecRender).              *)
(***************************************************************************)
\* C15: when the read of a document fails after some lines were rendered,
\* the string loadBlogContent returns with the error is empty: no prefix of
\* the rendered lines is handed back.
C15_NoPartialDocument == (rpc = "failed" /\ pos >= 1) => html = <<>>

(***************************************************************************)
(* Claims about concurrent calls while documents are edited (specification *)
(* SpecConc).                                                              *)
(***************************************************************************)
\* C16: with concurrent GetBlogContent calls for one slug and documents
\* edited between their steps, no step replaces an entry Content[s] by a
\* different value, and the value a call has returned for s is the value
\* the cache holds for s.
C16_CachedMarkupImmutable ==
    [][/\ \A s \in DOMAIN Content : s \in DOMAIN Content' /\ Content'[s] = Content[s]
       /\ \A g \in Goroutines :
             (procs'[g].pc = "done" /\ procs'[g].err = "nil") =>
                 /\ procs'[g].slug \in DOMAIN Content'
                 /\ Content'[procs'[g].slug] = procs'[g].content
      ]_vars

(***************************************************************************)
(* Claims about URL capture (specification SpecInline).                    *)
(***************************************************************************)
\* C17: an iteration made while inLinkURL is true, on any byte but ')',
\* appends that byte to linkText and writes nothing to the output.
C17_UrlCaptureSwallows ==
    [][(/\ ipc = "loop"
        /\ i < Len(line)
        /\ inLinkURL
        /\ At(line, i) # ")"
        /\ i' # i)
            => /\ linkText' = Append(linkText, At(line, i))
               /\ buf' = buf
      ]_vars

(***************************************************************************)
(* Claims about the loop of the transducer (specification SpecInline).     *)
(***************************************************************************)
\* C18: on every line the loop of parseInlineMarkdown goes on until it
\* returns: while it runs there is always a next step; every iteration is
\* made at an index below len(line), reads the next byte only if that too is
\* below len(line), and leaves the index larger than before and at most
\* len(line), so that there are at most len(line) iterations; the return
\* happens with the index at len(line) and hands back the output buffer.
C18_TotalAndTerminates ==
    /\ [](ipc = "loop" => (i <= Len(line) /\ ENABLED NextInline))
    /\ [][/\ (ipc = "loop" /\ ipc' = "loop") =>
                 /\ i < Len(line)
                 /\ i' \in {i + 1, i + 2}
                 /\ i' <= Len(line)
                 /\ Cur' = ScanStep(line, Cur)
          /\ ipc' = "returned" =>
                 /\ ipc = "loop"
                 /\ i = Len(line)
                 /\ buf' = parseInlineMarkdown(line)
         ]_vars

\* the call on a line of unmatched link characters that ends in a single
\* asterisk has returned
C18_Witness ==
    /\ ipc = "returned"
    /\ line = <<"]", "(", "[", "*">>
    /\ i = 4
    /\ buf = <<"(">> \o TagEmOpen

(***************************************************************************)
(* Claims about the nesting of the tags (specification SpecInline).        *)
(***************************************************************************)
RECURSIVE NoCrossing(_, _)
\* reading s from the left with the spans open so far (innermost last),
\* every </strong> and </em> closes the innermost open span
NoCrossing(s, open) ==
    IF s = <<>> THEN TRUE
    ELSE IF HasPrefix(s, TagStrongOpen)
    THEN NoCrossing(SliceFrom(s, Len(TagStrongOpen)), Append(open, "strong"))
    ELSE IF HasPrefix(s, TagEmOpen)
    THEN NoCrossing(SliceFrom(s, Len(TagEmOpen)), Append(open, "em"))
    ELSE IF HasPrefix(s, TagStrongClose)
    THEN /\ open # <<>>
         /\ open[Len(open)] = "strong"
         /\ NoCrossing(SliceFrom(s, Len(TagStrongClose)), SubSeq(open, 1, Len(open) - 1))
    ELSE IF HasPrefix(s, TagEmClose)
    THEN /\ open # <<>>
         /\ open[Len(open)] = "em"
         /\ NoCrossing(SliceFrom(s, Len(TagEmClose)), SubSeq(open, 1, Len(open) - 1))
    ELSE NoCrossing(Tail(s), open)

\* the loop is at a '*' that is not followed by a second one
AtSingleAsterisk ==
    /\ ipc = "loop"
    /\ i < Len(line)
    /\ At(line, i) = "*"
    /\ ~AtDoubleAsterisk

\* C19: an iteration made while inStrong is true writes no <em> and no </em>
\* and leaves inEm alone, and one made at a single '*' while inStrong is true
\* changes no mode flag; in the output written so far the strong and the
\* emphasis spans are nested, never crossed.
C19_TagsNeverCross ==
    /\ [](NoCrossing(buf, <<>>))
    /\ [][/\ (ipc = "loop" /\ ipc' = "loop" /\ inStrong) =>
                 /\ Occurrences(buf', TagEmOpen) = Occurrences(buf, TagEmOpen)
                 /\ Occurrences(buf', TagEmClose) = Occurrences(buf, TagEmClose)
                 /\ inEm' = inEm
          /\ (AtSingleAsterisk /\ ipc' = "loop" /\ inStrong) =>
                 <<inStrong, inEm, inLinkText, inLinkURL>>'
                     = <<inStrong, inEm, inLinkText, inLinkURL>>
         ]_vars

\* a strong span opened and closed inside an open emphasis span, with a
\* single asterisk copied inside the strong span
C19_Witness ==
    /\ ipc = "returned"
    /\ line = <<"*", "a", "*", "*", "*", "a", "*", "*">>
    /\ buf = TagEmOpen \o <<"a">> \o TagStrongOpen \o <<"*", "a">> \o TagStrongClose

(***************************************************************************)
(* Claims about discovery and rendering together (specification            *)
(* SpecDiscovery).                                                         *)
(***************************************************************************)
\* the last path segment
BaseName(p) ==
    LET seps == {k \in 1..Len(p) : p[k] = "/"}
    IN  SubSeq(p, (CHOOSE k \in seps : \A j \in seps : j <= k) + 1, Len(p))

\* the files of the tree that the walk turns into the slug s
OriginsOf(tree, s) ==
    {f \in FilesOf(tree) : IsMarkdownName(BaseName(f)) /\ SlugOfPath(f) = s}

\* C20: over an unchanged store every slug in the Slug List comes from one
\* file only, the file content/ + slug + .md that GetBlogContent opens for
\* it, so that two .md files never share a slug; and a GetBlogContent call
\* for a listed slug does not fail with a not-found error: it returns the
\* markup of that file unless the read fails.
C20_DiscoveryRenderAgree ==
    /\ \A k \in 1..Len(Slugs) : OriginsOf(fs, Slugs[k]) = {DocPath(Slugs[k])}
    /\ IsGet =>
          /\ ret.err \in {"nil", "EIO"}
          /\ ret.err = "nil" => ret.content = FullRender(fs[DocPath(ret.slug)])

\* the document of a file named b.md.md below a directory named content was
\* listed and then rendered
C20_Witness ==
    /\ IsGet
    /\ ret.err = "nil"
    /\ ret.slug = Root \o <<"/", "b", ".", "m", "d">>
    /\ ret.slug \in {Slugs[k] : k \in 1..Len(Slugs)}
    /\ ret.content = FullRender(DocA)
    /\ Len(Slugs) = 2

====
